---- MODULE Spec2Model ----
(***************************************************************************)
(* The OAuth loopback capture of src-tauri/src/lib.rs: the ListenerSlot    *)
(* (OAuthListenerState.receiver), start_oauth_listener with the background *)
(* thread it spawns, await_oauth_code with its timeout race, and the pure  *)
(* extract_code.                                                           *)
(*                                                                         *)
(* Strings are sequences of one-character strings.  Option<T> is a tuple:  *)
(* None is << >> and Some(v) is << v >>, so Some("") differs from None.    *)
(*                                                                         *)
(* start_oauth_listener has no suspension point and holds the slot's guard *)
(* from line 101 to its return, so it is one action.  await_oauth_code     *)
(* takes the slot in one critical section (lines 134-137) and then         *)
(* suspends on timeout(duration, rx) (line 140): two actions, with the     *)
(* timer in between.  The background thread is one action per request      *)
(* (accept, extract, respond) and one for tx.send + break.                 *)
(*                                                                         *)
(* Four specifications share the module, each leaving the others' part of  *)
(* the state untouched: Spec (FairSpec with a fair timer) is the capture at*)
(* the grain above; LockSpec (LockFair) runs the two commands line by line *)
(* around the mutex; ExtractSpec applies extract_code to a set of request  *)
(* URLs; WatchSpec (WatchFair) is the debounce loop of setup_gtk_watcher in*)
(* src-tauri/src/theme.rs.                                                 *)
(*                                                                         *)
(* Not modelled: std::thread::spawn panicking (the OS refusing a thread),  *)
(* the only way the mutex could be poisoned; the lock is never poisoned.   *)
(***************************************************************************)
EXTENDS Naturals, Sequences, FiniteSets

\* ---------------------------------------------------------------- bounds
NumCallers == 2    \* concurrent front-end invocations
MaxStarts == 2     \* captures (successful starts) per run
MaxRequests == 2   \* requests served per run, all ports together
MaxCalls == 3      \* commands the front end invokes per run
MaxTimeout == 1    \* timeout_ms, in timer ticks

Callers == 1..NumCallers
Captures == 1..MaxStarts

\* ---------------------------------------------------------------- strings
None == << >>
Some(v) == << v >>

\* The printable ASCII characters, code 32 first (the double quote, the
\* backslash and the grave accent by name).
Printable ==
  << " ", "!", "QUOT", "#", "$", "%", "&", "'", "(", ")", "*", "+", ",", "-", ".", "/",
     "0", "1", "2", "3", "4", "5", "6", "7", "8", "9", ":", ";", "<", "=", ">", "?",
     "@", "A", "B", "C", "D", "E", "F", "G", "H", "I", "J", "K", "L", "M", "N", "O",
     "P", "Q", "R", "S", "T", "U", "V", "W", "X", "Y", "Z", "[", "BSOL", "]", "^", "_",
     "GRAVE", "a", "b", "c", "d", "e", "f", "g", "h", "i", "j", "k", "l", "m", "n", "o",
     "p", "q", "r", "s", "t", "u", "v", "w", "x", "y", "z", "{", "|", "}", "~" >>

\* A decoded byte as a character; bytes outside printable ASCII are shown as
\* the replacement character.
Chr(b) == IF b >= 32 /\ b <= 126 THEN Printable[b - 31] ELSE "U+FFFD"

HexDigits ==
  << "0", "1", "2", "3", "4", "5", "6", "7", "8", "9", "A", "B", "C", "D", "E", "F" >>
HexLower ==
  << "0", "1", "2", "3", "4", "5", "6", "7", "8", "9", "a", "b", "c", "d", "e", "f" >>

IsHex(c) == \E i \in 1..16 : HexDigits[i] = c \/ HexLower[i] = c
HexVal(c) == (CHOOSE i \in 1..16 : HexDigits[i] = c \/ HexLower[i] = c) - 1

\* Index of the first occurrence of ch in s, 0 when there is none.
IndexOf(s, ch) ==
  IF \E i \in 1..Len(s) : s[i] = ch
  THEN CHOOSE i \in 1..Len(s) : s[i] = ch /\ \A j \in 1..(i - 1) : s[j] # ch
  ELSE 0

\* str::split(ch): the segments between the occurrences of ch.
RECURSIVE Split(_, _)
Split(s, ch) ==
  LET i == IndexOf(s, ch)
  IN IF i = 0 THEN << s >>
     ELSE << SubSeq(s, 1, i - 1) >> \o Split(SubSeq(s, i + 1, Len(s)), ch)

\* form_urlencoded's decoding of a name or value: '+' is a space, %XX a byte.
RECURSIVE Decode(_)
Decode(s) ==
  IF s = << >> THEN << >>
  ELSE IF s[1] = "+" THEN << " " >> \o Decode(Tail(s))
  ELSE IF s[1] = "%" /\ Len(s) >= 3 /\ IsHex(s[2]) /\ IsHex(s[3])
       THEN << Chr(16 * HexVal(s[2]) + HexVal(s[3])) >> \o Decode(SubSeq(s, 4, Len(s)))
  ELSE << s[1] >> \o Decode(Tail(s))

\* url::form_urlencoded::parse: the (name, value) pairs of a query, in order;
\* empty pieces between '&' are skipped, a piece with no '=' has an empty value.
RECURSIVE Pairs(_)
Pairs(pieces) ==
  IF pieces = << >> THEN << >>
  ELSE LET piece == Head(pieces)
           i == IndexOf(piece, "=")
           name == IF i = 0 THEN piece ELSE SubSeq(piece, 1, i - 1)
           value == IF i = 0 THEN << >> ELSE SubSeq(piece, i + 1, Len(piece))
       IN IF piece = << >> THEN Pairs(Tail(pieces))
          ELSE << << Decode(name), Decode(value) >> >> \o Pairs(Tail(pieces))

form_urlencoded_parse(query) == Pairs(Split(query, "&"))

CodeKey == << "c", "o", "d", "e" >>

\* The value of the first pair named "code", if any.
RECURSIVE FirstCode(_)
FirstCode(pairs) ==
  IF pairs = << >> THEN None
  ELSE IF Head(pairs)[1] = CodeKey THEN Some(Head(pairs)[2])
  ELSE FirstCode(Tail(pairs))

extract_code(url) ==
  LET parts == Split(url, "?")
  IN IF Len(parts) < 2 THEN None
     ELSE FirstCode(form_urlencoded_parse(parts[2]))

\* ---------------------------------------------------------------- inputs
\* Request URLs the loopback port may receive.
UrlState == << "/", "c", "b", "?", "s", "=", "x" >>
UrlCode == << "/", "c", "b", "?", "c", "o", "d", "e", "=", "a", "1", "&", "s", "=", "x" >>
UrlCodeLast == << "/", "c", "b", "?", "s", "=", "x", "&", "c", "o", "d", "e", "=", "b", "%", "2", "B", "2" >>

URLS == { UrlState, UrlCode, UrlCodeLast }

\* Server::http("127.0.0.1:0"): an IP listener, or the OS refuses the bind.
BindOutcomes == { "IP", "Err" }

\* ---------------------------------------------------------------- results
AlreadyRunning == "OAuth listener already running"
ListenerNotStarted == "OAuth listener not started"
ListenerClosed == "OAuth listener closed"
TimedOut == "OAuth listener timed out"
BindFailure == "bind failed"
UnsupportedAddress == "Unsupported listener address"

Complete == "Authorization complete. You may close this window."
Waiting == "Waiting for authorization. You may close this window."

\* The result of a call: kind is "port" (Ok(port), the capture in chan),
\* "code" (Ok(code), the code in code and its capture in chan) or an error.
NoRet == [op |-> "none", kind |-> "none", code |-> << >>, chan |-> 0]
Ret(op, kind, code, k) == [op |-> op, kind |-> kind, code |-> code, chan |-> k]

listen_addr_port(addr, k) ==
  IF addr = "IP" THEN Ret("start", "port", << >>, k)
  ELSE Ret("start", UnsupportedAddress, << >>, 0)

\* ---------------------------------------------------------------- state
VARIABLES
  receiver,   \* OAuthListenerState.receiver: 0 is None, k is Some(rx of capture k)
  chan,       \* per capture, its one-shot channel: tx, rx ("none", "alive", "gone"), val
  thread,     \* per capture, its background thread: pc and the extracted code
  log,        \* per capture, the requests its thread answered: [url, body]
  pc,         \* per caller: "idle", "awaiting" (suspended at line 140), "returned"
  held,       \* per caller, the capture whose rx the await took (0: none)
  remaining,  \* per caller, timer ticks left of the await's timeout
  ret,        \* per caller, the result of the call that returned
  takes,      \* per capture, how many await calls took its rx (history)
  delivered,  \* per capture, how many await calls returned its code (history)
  outcome,    \* per capture, how the await that took its rx ended ("none" so far) (history)
  since,      \* since the last successful start: was the slot taken, was a code returned (history)
  calls,      \* commands invoked so far (bounds the run)
  lock,       \* the mutex around receiver: the caller holding its guard, 0 when free
  making,     \* per caller, the capture a start in progress has created (0: none)
  contended,  \* per caller, its start found the lock held by another start (history)
  url,        \* extract_code on its own: the URL given
  result,     \* extract_code on its own: what it returned
  epc,        \* extract_code on its own: "off", "input" or "done"
  wpc,        \* GTK watcher loop: "off", "recv", "drain" or "emit"
  queue,      \* GTK watcher: change events in the mpsc channel
  left,       \* GTK watcher: milliseconds left until the deadline
  age,        \* GTK watcher: milliseconds since the first event of the batch (history)
  batch,      \* GTK watcher: events received since the last notification (history)
  events,     \* GTK watcher: change events sent so far (bounds the run)
  emitted,    \* GTK watcher: notifications emitted so far (history)
  notified    \* GTK watcher: received events a notification has covered (history)

vars == << receiver, chan, thread, log, pc, held, remaining, ret, takes, delivered, outcome, since, calls >>

lockvars == << lock, making, contended >>
evars == << url, result, epc >>
wvars == << wpc, queue, left, age, batch, events, emitted, notified >>

NoChan == [tx |-> "none", rx |-> "none", val |-> None]
NoThread == [pc |-> "none", code |-> None]

\* The captures started so far are 1..Started; the next one is Started + 1.
Started == Cardinality({ k \in Captures : thread[k].pc # "none" })

\* The requests answered so far, all threads together.
RECURSIVE SumLen(_, _)
SumLen(f, n) == IF n = 0 THEN 0 ELSE Len(f[n]) + SumLen(f, n - 1)
Served == SumLen(log, MaxStarts)

ListenerInit ==
  /\ receiver = 0
  /\ chan = [k \in Captures |-> NoChan]
  /\ thread = [k \in Captures |-> NoThread]
  /\ log = [k \in Captures |-> << >>]
  /\ pc = [p \in Callers |-> "idle"]
  /\ held = [p \in Callers |-> 0]
  /\ remaining = [p \in Callers |-> 0]
  /\ ret = [p \in Callers |-> NoRet]
  /\ takes = [k \in Captures |-> 0]
  /\ delivered = [k \in Captures |-> 0]
  /\ outcome = [k \in Captures |-> "none"]
  /\ since = [start |-> FALSE, take |-> FALSE, code |-> FALSE]
  /\ calls = 0

\* The parts of the state a specification does not use stay as they are here.
LockIdle ==
  /\ lock = 0
  /\ making = [p \in Callers |-> 0]
  /\ contended = [p \in Callers |-> FALSE]
ExtractIdle == url = << >> /\ result = None /\ epc = "off"
WatchIdle ==
  /\ wpc = "off"
  /\ queue = 0
  /\ left = 0
  /\ age = 0
  /\ batch = 0
  /\ events = 0
  /\ emitted = 0
  /\ notified = 0

Init == ListenerInit /\ LockIdle /\ ExtractIdle /\ WatchIdle

\* A new invocation occupies the lowest idle caller (callers are
\* interchangeable).
Free(p) == pc[p] = "idle" /\ \A q \in 1..(p - 1) : pc[q] # "idle"

\* start_fresh with the channel created and rx stored ahead of the bind: a
\* failed bind leaves rx in the slot.
start_fresh_store_first(p, b) ==
  LET k == Started + 1
      r == listen_addr_port(b, k)
  IN /\ k <= MaxStarts
     /\ receiver' = k
     /\ since' = [start |-> TRUE, take |-> FALSE, code |-> FALSE]
     /\ IF b = "Err" \/ r.kind # "port"
        THEN /\ ret' = [ret EXCEPT ![p] = IF b = "Err" THEN Ret("start", BindFailure, << >>, 0) ELSE r]
             /\ chan' = [chan EXCEPT ![k] = [tx |-> "gone", rx |-> "alive", val |-> None]]
             /\ UNCHANGED thread
        ELSE /\ chan' = [chan EXCEPT ![k] = [tx |-> "alive", rx |-> "alive", val |-> None]]
             /\ thread' = [thread EXCEPT ![k] = [pc |-> "accept", code |-> None]]
             /\ ret' = [ret EXCEPT ![p] = r]

\* ---------------------------------------------------------------- start
\* Lines 106-126: bind, resolve the port, create the channel, store rx,
\* spawn the thread that owns tx and the server.
start_fresh(p, b) ==
  LET k == Started + 1
      r == listen_addr_port(b, k)
  IN IF b = "Err" \/ r.kind # "port"
     THEN /\ ret' = [ret EXCEPT ![p] = IF b = "Err" THEN Ret("start", BindFailure, << >>, 0) ELSE r]
          /\ UNCHANGED << receiver, chan, thread, since >>
     ELSE /\ k <= MaxStarts
          /\ receiver' = k
          /\ chan' = [chan EXCEPT ![k] = [tx |-> "alive", rx |-> "alive", val |-> None]]
          /\ thread' = [thread EXCEPT ![k] = [pc |-> "accept", code |-> None]]
          /\ since' = [start |-> TRUE, take |-> FALSE, code |-> FALSE]
          /\ ret' = [ret EXCEPT ![p] = r]

\* start_oauth_listener without the is_some() check of lines 102-104: a
\* pending capture is silently replaced.
start_replace(p) ==
  /\ UNCHANGED << lockvars, evars, wvars >>
  /\ Free(p)
  /\ calls < MaxCalls
  /\ calls' = calls + 1
  /\ \E b \in BindOutcomes : start_fresh(p, b)
  /\ pc' = [pc EXCEPT ![p] = "returned"]
  /\ UNCHANGED << log, held, remaining, takes, delivered, outcome >>

\* Lines 100-127.
start_oauth_listener(p) ==
  /\ UNCHANGED << lockvars, evars, wvars >>
  /\ Free(p)
  /\ calls < MaxCalls
  /\ calls' = calls + 1
  /\ IF receiver # 0
     THEN /\ ret' = [ret EXCEPT ![p] = Ret("start", AlreadyRunning, << >>, 0)]
          /\ UNCHANGED << receiver, chan, thread, since >>
     ELSE \E b \in BindOutcomes : start_fresh(p, b)
  /\ pc' = [pc EXCEPT ![p] = "returned"]
  /\ UNCHANGED << log, held, remaining, takes, delivered, outcome >>

\* ---------------------------------------------------------------- thread
\* Lines 112-116, 120-122: one iteration up to the response.
serve(k, u) ==
  /\ UNCHANGED << lockvars, evars, wvars >>
  /\ thread[k].pc = "accept"
  /\ Served < MaxRequests
  /\ LET code == extract_code(u)
     IN IF code # None
        THEN /\ log' = [log EXCEPT ![k] = Append(@, [url |-> u, body |-> Complete])]
             /\ thread' = [thread EXCEPT ![k] = [pc |-> "send", code |-> code]]
        ELSE /\ log' = [log EXCEPT ![k] = Append(@, [url |-> u, body |-> Waiting])]
             /\ UNCHANGED thread
  /\ UNCHANGED << receiver, chan, pc, held, remaining, ret, takes, delivered, outcome, since, calls >>

\* oneshot_send on a channel that buffers: the value is stored even after
\* rx was dropped.
oneshot_send_buffered(c, v) ==
  [c EXCEPT !.tx = "gone", !.val = Some(v)]

\* oneshot::Sender::send: the value reaches the channel only while rx is
\* alive; either way tx is consumed.
oneshot_send(c, v) ==
  IF c.rx = "alive" THEN [c EXCEPT !.tx = "gone", !.val = Some(v)]
  ELSE [c EXCEPT !.tx = "gone"]

\* tx_send without the break of line 118: the thread goes on accepting.
tx_send_no_break(k) ==
  /\ UNCHANGED << lockvars, evars, wvars >>
  /\ thread[k].pc = "send"
  /\ chan' = [chan EXCEPT ![k] = oneshot_send(@, thread[k].code[1])]
  /\ thread' = [thread EXCEPT ![k] = [pc |-> "accept", code |-> None]]
  /\ UNCHANGED << receiver, log, pc, held, remaining, ret, takes, delivered, outcome, since, calls >>

\* tx_send that also empties the slot once the code is sent.
tx_send_reset(k) ==
  /\ UNCHANGED << lockvars, evars, wvars >>
  /\ thread[k].pc = "send"
  /\ chan' = [chan EXCEPT ![k] = oneshot_send(@, thread[k].code[1])]
  /\ thread' = [thread EXCEPT ![k] = [pc |-> "done", code |-> None]]
  /\ receiver' = 0
  /\ UNCHANGED << log, pc, held, remaining, ret, takes, delivered, outcome, since, calls >>

\* tx_send through one shared sender: the code goes to the capture whose
\* receiving end is in the slot, or held by a waiting await, at that moment.
tx_send_shared(k) ==
  /\ UNCHANGED << lockvars, evars, wvars >>
  /\ thread[k].pc = "send"
  /\ LET cur == { j \in Captures : chan[j].rx = "alive" }
         j == IF cur = { } THEN k ELSE CHOOSE x \in cur : \A y \in cur : y <= x
     IN chan' = [chan EXCEPT ![j] = oneshot_send(@, thread[k].code[1])]
  /\ thread' = [thread EXCEPT ![k] = [pc |-> "done", code |-> None]]
  /\ UNCHANGED << receiver, log, pc, held, remaining, ret, takes, delivered, outcome, since, calls >>

\* Lines 117-118: tx.send(code); break. The thread ends and drops the server.
tx_send(k) ==
  /\ UNCHANGED << lockvars, evars, wvars >>
  /\ thread[k].pc = "send"
  /\ chan' = [chan EXCEPT ![k] = oneshot_send(@, thread[k].code[1])]
  /\ thread' = [thread EXCEPT ![k] = [pc |-> "done", code |-> None]]
  /\ UNCHANGED << receiver, log, pc, held, remaining, ret, takes, delivered, outcome, since, calls >>

\* accept_error with tx leaked instead of dropped when the thread ends.
accept_error_keeps_tx(k) ==
  /\ UNCHANGED << lockvars, evars, wvars >>
  /\ thread[k].pc = "accept"
  /\ thread' = [thread EXCEPT ![k] = [pc |-> "done", code |-> None]]
  /\ UNCHANGED << receiver, chan, log, pc, held, remaining, ret, takes, delivered, outcome, since, calls >>

\* accept_error that also empties the slot when the thread ends.
accept_error_clears_slot(k) ==
  /\ UNCHANGED << lockvars, evars, wvars >>
  /\ thread[k].pc = "accept"
  /\ chan' = [chan EXCEPT ![k].tx = "gone"]
  /\ thread' = [thread EXCEPT ![k] = [pc |-> "done", code |-> None]]
  /\ receiver' = IF receiver = k THEN 0 ELSE receiver
  /\ UNCHANGED << log, pc, held, remaining, ret, takes, delivered, outcome, since, calls >>

\* Line 112: incoming_requests() ends on an accept error; the thread ends
\* and drops tx without sending.
accept_error(k) ==
  /\ UNCHANGED << lockvars, evars, wvars >>
  /\ thread[k].pc = "accept"
  /\ chan' = [chan EXCEPT ![k].tx = "gone"]
  /\ thread' = [thread EXCEPT ![k] = [pc |-> "done", code |-> None]]
  /\ UNCHANGED << receiver, log, pc, held, remaining, ret, takes, delivered, outcome, since, calls >>

\* ---------------------------------------------------------------- await
\* await_oauth_code that, on an empty slot, reports a timeout instead of
\* ListenerNotStarted.
await_empty_times_out(p, timeout_ms) ==
  /\ UNCHANGED << lockvars, evars, wvars >>
  /\ Free(p)
  /\ calls < MaxCalls
  /\ calls' = calls + 1
  /\ IF receiver = 0
     THEN /\ ret' = [ret EXCEPT ![p] = Ret("await", TimedOut, << >>, 0)]
          /\ pc' = [pc EXCEPT ![p] = "returned"]
          /\ UNCHANGED << receiver, held, remaining, takes, since >>
     ELSE /\ held' = [held EXCEPT ![p] = receiver]
          /\ receiver' = 0
          /\ remaining' = [remaining EXCEPT ![p] = timeout_ms]
          /\ takes' = [takes EXCEPT ![receiver] = @ + 1]
          /\ since' = [since EXCEPT !.take = TRUE]
          /\ pc' = [pc EXCEPT ![p] = "awaiting"]
          /\ UNCHANGED ret
  /\ UNCHANGED << chan, thread, log, delivered, outcome >>

\* await_oauth_code that reads the slot without take(): rx stays in the slot.
await_no_take(p, timeout_ms) ==
  /\ UNCHANGED << lockvars, evars, wvars >>
  /\ Free(p)
  /\ calls < MaxCalls
  /\ calls' = calls + 1
  /\ IF receiver = 0
     THEN /\ ret' = [ret EXCEPT ![p] = Ret("await", ListenerNotStarted, << >>, 0)]
          /\ pc' = [pc EXCEPT ![p] = "returned"]
          /\ UNCHANGED << receiver, held, remaining, takes, since >>
     ELSE /\ held' = [held EXCEPT ![p] = receiver]
          /\ remaining' = [remaining EXCEPT ![p] = timeout_ms]
          /\ takes' = [takes EXCEPT ![receiver] = @ + 1]
          /\ since' = [since EXCEPT !.take = TRUE]
          /\ pc' = [pc EXCEPT ![p] = "awaiting"]
          /\ UNCHANGED << receiver, ret >>
  /\ UNCHANGED << chan, thread, log, delivered, outcome >>

\* Lines 134-139: take the slot under the lock, or fail at once.
await_oauth_code(p, timeout_ms) ==
  /\ UNCHANGED << lockvars, evars, wvars >>
  /\ Free(p)
  /\ calls < MaxCalls
  /\ calls' = calls + 1
  /\ IF receiver = 0
     THEN /\ ret' = [ret EXCEPT ![p] = Ret("await", ListenerNotStarted, << >>, 0)]
          /\ pc' = [pc EXCEPT ![p] = "returned"]
          /\ UNCHANGED << receiver, held, remaining, takes, since >>
     ELSE /\ held' = [held EXCEPT ![p] = receiver]
          /\ receiver' = 0
          /\ remaining' = [remaining EXCEPT ![p] = timeout_ms]
          /\ takes' = [takes EXCEPT ![receiver] = @ + 1]
          /\ since' = [since EXCEPT !.take = TRUE]
          /\ pc' = [pc EXCEPT ![p] = "awaiting"]
          /\ UNCHANGED ret
  /\ UNCHANGED << chan, thread, log, delivered, outcome >>

\* The timer of timeout(duration, rx) advances.
timer(p) ==
  /\ UNCHANGED << lockvars, evars, wvars >>
  /\ pc[p] = "awaiting"
  /\ remaining[p] > 0
  /\ remaining' = [remaining EXCEPT ![p] = @ - 1]
  /\ UNCHANGED << receiver, chan, thread, log, pc, held, ret, takes, delivered, outcome, since, calls >>

\* timeout_rx with the closed test ahead of the value test: a sent code,
\* whose tx is consumed, reads as a closed channel.
timeout_rx_closed_first(c, rem) ==
  IF c.tx = "gone" THEN ListenerClosed
  ELSE IF c.val # None THEN "code"
  ELSE IF rem = 0 THEN TimedOut
  ELSE "pending"

\* timeout_rx with no deadline: rx.await alone.
timeout_rx_no_deadline(c, rem) ==
  IF c.val # None THEN "code"
  ELSE IF c.tx = "gone" THEN ListenerClosed
  ELSE "pending"

\* Lines 140-144: tokio's Timeout polls rx first and the deadline second:
\* a value, else a closed channel, else an elapsed deadline, else pending.
timeout_rx(c, rem) ==
  IF c.val # None THEN "code"
  ELSE IF c.tx = "gone" THEN ListenerClosed
  ELSE IF rem = 0 THEN TimedOut
  ELSE "pending"

\* await_return that puts rx back into the slot when the wait timed out.
await_return_restore(p) ==
  /\ UNCHANGED << lockvars, evars, wvars >>
  /\ pc[p] = "awaiting"
  /\ LET k == held[p]
         kind == timeout_rx(chan[k], remaining[p])
     IN /\ kind # "pending"
        /\ ret' = [ret EXCEPT ![p] =
                     Ret("await", kind, IF kind = "code" THEN chan[k].val[1] ELSE << >>, k)]
        /\ IF kind = TimedOut
           THEN receiver' = k /\ UNCHANGED chan
           ELSE /\ chan' = [chan EXCEPT ![k] = [@ EXCEPT !.rx = "gone", !.val = None]]
                /\ UNCHANGED receiver
        /\ delivered' = [delivered EXCEPT ![k] = IF kind = "code" THEN @ + 1 ELSE @]
        /\ outcome' = [outcome EXCEPT ![k] = kind]
        /\ since' = [since EXCEPT !.code = @ \/ kind = "code"]
  /\ pc' = [pc EXCEPT ![p] = "returned"]
  /\ held' = [held EXCEPT ![p] = 0]
  /\ remaining' = [remaining EXCEPT ![p] = 0]
  /\ UNCHANGED << thread, log, takes, calls >>

\* await_return that cancels the capture's thread when the wait timed out.
await_return_cancels(p) ==
  /\ UNCHANGED << lockvars, evars, wvars >>
  /\ pc[p] = "awaiting"
  /\ LET k == held[p]
         kind == timeout_rx(chan[k], remaining[p])
     IN /\ kind # "pending"
        /\ ret' = [ret EXCEPT ![p] =
                     Ret("await", kind, IF kind = "code" THEN chan[k].val[1] ELSE << >>, k)]
        /\ chan' = [chan EXCEPT ![k] = [@ EXCEPT !.rx = "gone", !.val = None]]
        /\ thread' = IF kind = TimedOut /\ thread[k].pc = "accept"
                     THEN [thread EXCEPT ![k] = [pc |-> "done", code |-> None]]
                     ELSE thread
        /\ delivered' = [delivered EXCEPT ![k] = IF kind = "code" THEN @ + 1 ELSE @]
        /\ outcome' = [outcome EXCEPT ![k] = kind]
        /\ since' = [since EXCEPT !.code = @ \/ kind = "code"]
  /\ pc' = [pc EXCEPT ![p] = "returned"]
  /\ held' = [held EXCEPT ![p] = 0]
  /\ remaining' = [remaining EXCEPT ![p] = 0]
  /\ UNCHANGED << receiver, log, takes, calls >>

\* Lines 140-145: the await resumes and returns; rx is dropped.
await_return(p) ==
  /\ UNCHANGED << lockvars, evars, wvars >>
  /\ pc[p] = "awaiting"
  /\ LET k == held[p]
         kind == timeout_rx(chan[k], remaining[p])
     IN /\ kind # "pending"
        /\ ret' = [ret EXCEPT ![p] =
                     Ret("await", kind, IF kind = "code" THEN chan[k].val[1] ELSE << >>, k)]
        /\ chan' = [chan EXCEPT ![k] = [@ EXCEPT !.rx = "gone", !.val = None]]
        /\ delivered' = [delivered EXCEPT ![k] = IF kind = "code" THEN @ + 1 ELSE @]
        /\ outcome' = [outcome EXCEPT ![k] = kind]
        /\ since' = [since EXCEPT !.code = @ \/ kind = "code"]
  /\ pc' = [pc EXCEPT ![p] = "returned"]
  /\ held' = [held EXCEPT ![p] = 0]
  /\ remaining' = [remaining EXCEPT ![p] = 0]
  /\ UNCHANGED << receiver, thread, log, takes, calls >>

\* The front end receives the result; the caller may invoke again.
resolve(p) ==
  /\ UNCHANGED << lockvars, evars, wvars >>
  /\ pc[p] = "returned"
  /\ pc' = [pc EXCEPT ![p] = "idle"]
  /\ ret' = [ret EXCEPT ![p] = NoRet]
  /\ UNCHANGED << receiver, chan, thread, log, held, remaining, takes, delivered, outcome, since, calls >>

Next ==
  \/ \E p \in Callers : start_oauth_listener(p)
  \/ \E p \in Callers : \E t \in 0..MaxTimeout : await_oauth_code(p, t)
  \/ \E p \in Callers : timer(p)
  \/ \E p \in Callers : await_return(p)
  \/ \E p \in Callers : resolve(p)
  \/ \E k \in Captures : \E u \in URLS : serve(k, u)
  \/ \E k \in Captures : tx_send(k)
  \/ \E k \in Captures : accept_error(k)

Spec == Init /\ [][Next]_vars

\* The timer advances and a ready await is resumed by the runtime.
FairSpec ==
  /\ Spec
  /\ \A p \in Callers : WF_vars(timer(p)) /\ WF_vars(await_return(p))

\* ---------------------------------------------------------------- claims
\* Caller p's start call runs in this step.
StartStep(p) == pc[p] = "idle" /\ pc'[p] = "returned" /\ ret'[p].op = "start"

\* Caller p's await call enters (takes the slot or fails at once) in this step.
AwaitCallStep(p) ==
  /\ pc[p] = "idle"
  /\ \/ pc'[p] = "awaiting"
     \/ pc'[p] = "returned" /\ ret'[p].op = "await"

\* Caller p's suspended await returns in this step.
AwaitReturnStep(p) == pc[p] = "awaiting" /\ pc'[p] = "returned"

\* C1: a start called while the slot holds a receiving end fails with
\* AlreadyRunning and changes nothing: the slot keeps the same receiving end,
\* no channel is created, no thread is spawned, no other caller is affected.
C1_AlreadyRunning ==
  [][\A p \in Callers :
       (StartStep(p) /\ receiver # 0) =>
         /\ ret'[p] = Ret("start", AlreadyRunning, << >>, 0)
         /\ receiver' = receiver
         /\ chan' = chan
         /\ thread' = thread
         /\ log' = log
         /\ held' = held]_vars

C1_Witness ==
  \E p \in Callers :
    /\ pc[p] = "returned"
    /\ ret[p].kind = AlreadyRunning
    /\ receiver # 0
    /\ chan[receiver].rx = "alive"

\* C2 as stated: once a start has succeeded, a start called with no await
\* having returned a code in between fails with AlreadyRunning.
C2_Original ==
  [][\A p \in Callers :
       (StartStep(p) /\ since.start /\ ~since.code) =>
         ret'[p].kind = AlreadyRunning]_vars

\* C2 as amended: once a start has succeeded, a start called with no await
\* having taken the receiving end in between (whatever that await went on to
\* return) fails with AlreadyRunning.
C2_StartTwice ==
  [][\A p \in Callers :
       (StartStep(p) /\ since.start /\ ~since.take) =>
         ret'[p].kind = AlreadyRunning]_vars

C2_Witness ==
  \E p \in Callers :
    /\ pc[p] = "returned"
    /\ ret[p].kind = AlreadyRunning
    /\ since.start
    /\ ~since.take

\* C3: in every reachable state at most one one-shot channel has a live
\* receiving end (in the slot or held by an await that has not returned).
C3_OneInFlight ==
  Cardinality({ k \in Captures : chan[k].rx = "alive" }) <= 1

\* C4: an await called while the slot is empty fails with ListenerNotStarted
\* in that same step, without suspending on the timeout, and the slot stays
\* empty; nothing else changes.
C4_NotStarted ==
  [][\A p \in Callers :
       (AwaitCallStep(p) /\ receiver = 0) =>
         /\ pc'[p] = "returned"
         /\ ret'[p] = Ret("await", ListenerNotStarted, << >>, 0)
         /\ receiver' = 0
         /\ held' = held
         /\ remaining' = remaining
         /\ chan' = chan
         /\ thread' = thread]_vars

\* Both cases: no start yet, and the receiving end already taken.
C4_Witness ==
  \E p \in Callers :
    /\ pc[p] = "returned"
    /\ ret[p].kind = ListenerNotStarted
    /\ receiver = 0
    /\ \E k \in Captures : takes[k] = 1

\* C5: of the await calls racing for one pending capture exactly one takes
\* the receiving end (and empties the slot); every other one finds the slot
\* empty and fails with ListenerNotStarted; no capture's receiving end is
\* ever held by two awaits, and no capture's code is returned twice.
C5_SingleTaker ==
  [][/\ \A p \in Callers :
          AwaitCallStep(p) =>
            \/ /\ receiver # 0
               /\ takes[receiver] = 0
               /\ takes'[receiver] = 1
               /\ held'[p] = receiver
               /\ receiver' = 0
            \/ /\ receiver = 0
               /\ ret'[p].kind = ListenerNotStarted
     /\ \A k \in Captures :
          /\ Cardinality({ q \in Callers : held'[q] = k }) <= 1
          /\ takes'[k] <= 1
          /\ delivered'[k] <= 1]_vars

\* Two awaits against the only capture: one holds its receiving end, the
\* other was turned away.
C5_Witness ==
  \E p, q \in Callers :
    /\ p # q
    /\ Started = 1
    /\ pc[p] = "awaiting"
    /\ held[p] = 1
    /\ pc[q] = "returned"
    /\ ret[q].kind = ListenerNotStarted

\* The code parameter each request URL of URLS carries, written out.
CodeOfRequest(u) ==
  CASE u = UrlCode -> Some(<< "a", "1" >>)
    [] u = UrlCodeLast -> Some(<< "b", "+", "2" >>)
    [] OTHER -> None

Last(s) == s[Len(s)]

\* Capture k's thread answered a request carrying a code and has sent it.
Sent(k) ==
  /\ thread[k].pc = "done"
  /\ log[k] # << >>
  /\ Last(log[k]).body = Complete

\* Capture k's thread ended on an accept error, with no code sent.
Exited(k) ==
  /\ thread[k].pc = "done"
  /\ log[k] = << >> \/ Last(log[k]).body = Waiting

\* C6: once the thread of a capture has received a request carrying code=X
\* and sent it, the await that holds this capture's receiving end returns
\* exactly X (never TimedOut or ListenerClosed), whether the code was sent
\* while the receiving end was still in the slot, where it waits in the
\* channel, or while the await was suspended.
C6_CodeReturned ==
  [][/\ \A p \in Callers :
          (AwaitReturnStep(p) /\ Sent(held[p])) =>
            ret'[p] = Ret("await", "code", CodeOfRequest(Last(log[held[p]]).url)[1], held[p])
     /\ \A k \in Captures :
          (receiver' = k /\ Sent(k)') =>
            chan'[k].val = CodeOfRequest(Last(log'[k]).url)]_vars

C6_Witness ==
  \E p \in Callers :
    /\ pc[p] = "returned"
    /\ ret[p].kind = "code"
    /\ ret[p].code = << "b", "+", "2" >>
    /\ Sent(ret[p].chan)

\* C7: an await that holds a receiving end while no code is sent and the
\* thread keeps running returns only once its timeout has elapsed, and then
\* with TimedOut; and every suspended await returns, however long the thread
\* runs.
C7_TimedOut ==
  /\ [][\A p \in Callers :
          (AwaitReturnStep(p) /\ thread[held[p]].pc # "done") =>
            /\ remaining[p] = 0
            /\ ret'[p] = Ret("await", TimedOut, << >>, held[p])]_vars
  /\ \A p \in Callers : (pc[p] = "awaiting") ~> (pc[p] = "returned")

C7_Witness ==
  \E p \in Callers :
    /\ pc[p] = "returned"
    /\ ret[p].kind = TimedOut
    /\ thread[ret[p].chan].pc = "accept"

\* C8: when the thread of a capture has ended on an accept error without
\* sending, the await that holds this capture's receiving end fails with
\* ListenerClosed, not with TimedOut and not with a code.
C8_ListenerClosed ==
  [][\A p \in Callers :
       (AwaitReturnStep(p) /\ Exited(held[p])) =>
         ret'[p] = Ret("await", ListenerClosed, << >>, held[p])]_vars

C8_Witness ==
  \E p \in Callers :
    /\ pc[p] = "returned"
    /\ ret[p].kind = ListenerClosed
    /\ Exited(ret[p].chan)

\* C9: after the await that took the latest capture's receiving end returned
\* TimedOut, and until another start succeeds, the receiving end is gone and
\* the slot is empty: an await fails with ListenerNotStarted, and a start is
\* not rejected as AlreadyRunning; when its bind succeeds it installs a new
\* channel with its own thread.
C9_AfterTimedOut ==
  [][(Started > 0 /\ outcome[Started] = TimedOut) =>
       /\ receiver = 0
       /\ chan[Started].rx = "gone"
       /\ \A p \in Callers :
            /\ AwaitCallStep(p) => ret'[p] = Ret("await", ListenerNotStarted, << >>, 0)
            /\ StartStep(p) =>
                 /\ ret'[p].kind \in { "port", BindFailure }
                 /\ ret'[p].kind = "port" =>
                      /\ receiver' = Started + 1
                      /\ ret'[p].chan = Started + 1
                      /\ chan'[Started + 1] = [tx |-> "alive", rx |-> "alive", val |-> None]
                      /\ thread'[Started + 1].pc = "accept"]_vars

\* A start succeeded after the first capture's await timed out.
C9_Witness ==
  \E p \in Callers :
    /\ outcome[1] = TimedOut
    /\ pc[p] = "returned"
    /\ ret[p] = Ret("start", "port", << >>, 2)
    /\ receiver = 2
    /\ chan[1].rx = "gone"
    /\ since.start /\ ~since.take

\* C10: per capture the thread answers every request with no code with the
\* "waiting" body and goes on, answers the first request carrying a code with
\* the "complete" body, sends that code and no other, and then serves no
\* further request; no capture's code is returned by more than one await.
C10_OneCode ==
  \A k \in Captures :
    /\ \A i \in 1..Len(log[k]) :
         /\ log[k][i].body = IF CodeOfRequest(log[k][i].url) # None THEN Complete ELSE Waiting
         /\ i < Len(log[k]) => log[k][i].body = Waiting
    /\ (log[k] # << >> /\ Last(log[k]).body = Complete) =>
         \/ thread[k].pc = "send" /\ thread[k].code = CodeOfRequest(Last(log[k]).url)
         \/ thread[k].pc = "done"
    /\ chan[k].val # None => Sent(k) /\ chan[k].val = CodeOfRequest(Last(log[k]).url)
    /\ delivered[k] <= 1

\* A request without a code was answered before the one whose code was sent.
C10_Witness ==
  \E k \in Captures :
    /\ Len(log[k]) = 2
    /\ log[k][1].body = Waiting
    /\ log[k][2].body = Complete
    /\ thread[k].pc = "done"
    /\ chan[k].val = CodeOfRequest(log[k][2].url)

\* C17: a start that fails with BindFailure or UnsupportedAddress found the
\* slot empty and leaves it empty, creates no channel and spawns no thread,
\* so the next start is not rejected.
C17_FailedStart ==
  [][\A p \in Callers :
       (StartStep(p) /\ ret'[p].kind \in { BindFailure, UnsupportedAddress }) =>
         /\ receiver = 0
         /\ receiver' = 0
         /\ chan' = chan
         /\ thread' = thread
         /\ Started' = Started]_vars

\* A start failed on its bind and the start after it stored the first capture.
C17_Witness ==
  \E p, q \in Callers :
    /\ ret[q] = Ret("start", BindFailure, << >>, 0)
    /\ ret[p] = Ret("start", "port", << >>, 1)
    /\ calls = 2
    /\ receiver = 1
    /\ thread[1].pc = "accept"

\* Capture k's thread is running: it holds its server and its bound port.
Alive(k) == thread[k].pc \in { "accept", "send" }

\* C18: a running thread ends only on the send of a code it extracted from
\* a request, or on an accept error; every step of a start or await call,
\* whatever it returns, leaves every thread as it is, and so does a request
\* without a code: until one of the two happens the thread stays alive.
C18_ThreadEnds ==
  [][\A k \in Captures :
       /\ (Alive(k) /\ ~Alive(k)') =>
            /\ thread'[k].pc = "done"
            /\ chan'[k].tx = "gone"
            /\ \/ /\ thread[k].pc = "send"
                  /\ thread[k].code = CodeOfRequest(Last(log[k]).url)
                  /\ Last(log[k]).body = Complete
               \/ /\ thread[k].pc = "accept"
                  /\ chan[k].tx = "alive"
                  /\ chan'[k].val = None
                  /\ log' = log
       /\ (Alive(k) /\ (pc' # pc \/ ret' # ret \/ receiver' # receiver)) =>
            thread'[k] = thread[k]
       /\ (Alive(k) /\ Len(log'[k]) > Len(log[k]) /\ Last(log'[k]).body = Waiting) =>
            thread'[k] = thread[k]]_vars

\* A thread is still accepting after it answered MaxRequests requests without
\* a code, its await timed out, and a later await found the slot empty.
C18_Witness ==
  \E k \in Captures :
    /\ thread[k].pc = "accept"
    /\ Len(log[k]) = MaxRequests
    /\ outcome[k] = TimedOut
    /\ \E p \in Callers : ret[p].kind = ListenerNotStarted

\* The code received on capture k's port, if any: its thread logged it last.
Received(k) ==
  IF log[k] # << >> /\ Last(log[k]).body = Complete
  THEN CodeOfRequest(Last(log[k]).url)
  ELSE None

C11_TimedOutThread ==
  [][/\ \A p \in Callers :
          (AwaitReturnStep(p) /\ ret'[p].kind = TimedOut) =>
            /\ thread' = thread
            /\ log' = log
     /\ \A k \in Captures :
          outcome[k] = TimedOut =>
            /\ (thread[k].pc = "accept" /\ thread'[k].pc # "accept" /\ chan'[k].tx = "alive") =>
                 /\ thread'[k].pc = "send"
                 /\ Last(log'[k]).body = Complete
            /\ (thread[k].pc = "send" /\ thread'[k] # thread[k]) =>
                 /\ thread'[k].pc = "done"
                 /\ chan'[k].tx = "gone"
            /\ chan'[k].val = None
            /\ delivered'[k] = 0
            /\ outcome'[k] = TimedOut
            /\ \A p \in Callers : held'[p] # k /\ ~(ret'[p].kind = "code" /\ ret'[p].chan = k)]_vars

C11_Witness ==
  \E k \in Captures :
    /\ outcome[k] = TimedOut
    /\ thread[k].pc = "done"
    /\ log[k] # << >>
    /\ Last(log[k]).body = Complete
    /\ chan[k].tx = "gone"
    /\ chan[k].val = None
    /\ delivered[k] = 0

\* ------------------------------------------------- extract_code on its own
MaxParams == 2     \* parameters in a query string

\* Query parameters as they arrive on the wire.  A literal '?' is legal
\* inside a query string.
ParamState == << "s", "=", "x" >>
ParamCode == << "c", "o", "d", "e", "=", "a", "1" >>
ParamCodeEmpty == << "c", "o", "d", "e", "=" >>
ParamCodeBare == << "c", "o", "d", "e" >>
ParamCodeEncoded == << "c", "o", "d", "e", "=", "b", "%", "2", "B", "2" >>
ParamOther == << "x", "c", "o", "d", "e", "=", "z" >>
ParamMark == << "r", "=", "a", "?", "b" >>
ParamCodeMark == << "c", "o", "d", "e", "=", "a", "?", "b" >>

Params ==
  { ParamState, ParamCode, ParamCodeEmpty, ParamCodeBare, ParamCodeEncoded,
    ParamOther, ParamMark, ParamCodeMark }

RECURSIVE JoinAmp(_)
JoinAmp(ps) ==
  IF ps = << >> THEN << >>
  ELSE IF Len(ps) = 1 THEN ps[1]
  ELSE ps[1] \o << "&" >> \o JoinAmp(Tail(ps))

UrlPath == << "/", "c", "b" >>

\* The request URLs extract_code is given: a path alone, or a path, '?' and
\* up to MaxParams parameters.
ExtractURLS ==
  { UrlPath } \cup
  { UrlPath \o << "?" >> \o JoinAmp(ps) :
      ps \in UNION { [1..n -> Params] : n \in 0..MaxParams } }

ExtractInit ==
  /\ ListenerInit
  /\ LockIdle
  /\ WatchIdle
  /\ url \in ExtractURLS
  /\ result = None
  /\ epc = "input"

\* Line 114: extract_code(request.url()).
call_extract_code ==
  /\ epc = "input"
  /\ result' = extract_code(url)
  /\ epc' = "done"
  /\ UNCHANGED url
  /\ UNCHANGED << vars, lockvars, wvars >>

ExtractNext == call_extract_code

ExtractSpec == ExtractInit /\ [][ExtractNext]_evars

\* The query string of a URL: everything after the first '?'.
QueryString(u) == SubSeq(u, IndexOf(u, "?") + 1, Len(u))

\* C12: extract_code returns the value of the code parameter whenever the
\* query string (everything after the first '?') has one, wherever it stands,
\* an empty value included, and nothing exactly when it has none.
C12_ExtractCode ==
  epc = "done" =>
    result = IF IndexOf(url, "?") = 0 THEN None
             ELSE FirstCode(form_urlencoded_parse(QueryString(url)))

\* ---------------------------------------------------------------- the slot
\* Capture k's receiving end was stored by a successful start and no await
\* has taken it yet.
Untaken(k) == chan[k].rx # "none" /\ takes[k] = 0

\* C13: the slot is non-empty exactly when some successful start's receiving
\* end has not been taken by an await, and it holds that receiving end; only
\* a successful start fills the slot, only an await call empties it, and no
\* step of a background thread changes it.
C13_SlotContent ==
  [][/\ receiver' # 0 <=> \E k \in Captures : Untaken(k)'
     /\ receiver' # 0 => Untaken(receiver)' /\ chan'[receiver'].rx = "alive"
     /\ receiver' # receiver =>
          \/ \E p \in Callers :
               /\ StartStep(p)
               /\ ret'[p].kind = "port"
               /\ receiver = 0
               /\ receiver' = ret'[p].chan
          \/ \E p \in Callers :
               /\ AwaitCallStep(p)
               /\ pc'[p] = "awaiting"
               /\ receiver' = 0
               /\ held'[p] = receiver
     /\ (thread' # thread /\ \A p \in Callers : ~StartStep(p)) => receiver' = receiver]_vars

\* The slot still holds a receiving end whose thread has ended on an accept
\* error.
C13_Witness ==
  /\ receiver # 0
  /\ thread[receiver].pc = "done"
  /\ chan[receiver].tx = "gone"
  /\ chan[receiver].rx = "alive"
  /\ takes[receiver] = 0

\* ------------------------------------------------ the lock, step by step
\* The two commands at the grain of the mutex around receiver.  A caller's
\* pc names the line it is about to execute: "s_lock" (101), "s_check" (102),
\* "s_bind" (106-107), "s_store" (108-109), "s_spawn" (111), "s_ret" (126),
\* "a_lock" (135), "a_take" (136-137), "awaiting" (140).  The background
\* thread never touches the lock and is left out: the channel stays silent
\* and an await ends by its deadline.
StartPcs == { "s_check", "s_bind", "s_store", "s_spawn", "s_ret" }

\* The channels created so far.
Made == Cardinality({ k \in Captures : chan[k].rx # "none" })

\* A MutexGuard of caller p going out of scope.
Unlock(p) == IF lock = p THEN 0 ELSE lock

LockInit == ListenerInit /\ LockIdle /\ ExtractIdle /\ WatchIdle

\* The front end invokes start_oauth_listener.
invoke_start(p) ==
  /\ Free(p)
  /\ calls < MaxCalls
  /\ calls' = calls + 1
  /\ pc' = [pc EXCEPT ![p] = "s_lock"]
  /\ UNCHANGED << receiver, chan, thread, log, held, remaining, ret, takes, delivered, outcome, since >>
  /\ UNCHANGED << lockvars, evars, wvars >>

\* Line 101: state.receiver.lock(); the guard lives to the end of the function.
start_lock(p) ==
  /\ pc[p] = "s_lock"
  /\ lock = 0
  /\ lock' = p
  /\ contended' = [q \in Callers |-> contended[q] \/ (q # p /\ pc[q] = "s_lock")]
  /\ pc' = [pc EXCEPT ![p] = "s_check"]
  /\ UNCHANGED << receiver, chan, thread, log, held, remaining, ret, takes, delivered, outcome, since, calls >>
  /\ UNCHANGED << making, evars, wvars >>

\* start_check that drops the guard once the slot was seen empty: the bind,
\* the store and the spawn run without the lock.
start_check_unlocks(p) ==
  /\ pc[p] = "s_check"
  /\ lock' = Unlock(p)
  /\ IF receiver # 0
     THEN /\ ret' = [ret EXCEPT ![p] = Ret("start", AlreadyRunning, << >>, 0)]
          /\ pc' = [pc EXCEPT ![p] = "returned"]
     ELSE /\ pc' = [pc EXCEPT ![p] = "s_bind"]
          /\ UNCHANGED ret
  /\ UNCHANGED << receiver, chan, thread, log, held, remaining, takes, delivered, outcome, since, calls >>
  /\ UNCHANGED << making, contended, evars, wvars >>

\* start_check without the early return: a full slot is not an error.
start_check_no_return(p) ==
  /\ pc[p] = "s_check"
  /\ pc' = [pc EXCEPT ![p] = "s_bind"]
  /\ UNCHANGED << receiver, chan, thread, log, held, remaining, ret, takes, delivered, outcome, since, calls >>
  /\ UNCHANGED << lockvars, evars, wvars >>

\* Lines 102-104: a full slot is AlreadyRunning; the return drops the guard.
start_check(p) ==
  /\ pc[p] = "s_check"
  /\ IF receiver # 0
     THEN /\ ret' = [ret EXCEPT ![p] = Ret("start", AlreadyRunning, << >>, 0)]
          /\ pc' = [pc EXCEPT ![p] = "returned"]
          /\ lock' = Unlock(p)
     ELSE /\ pc' = [pc EXCEPT ![p] = "s_bind"]
          /\ UNCHANGED << ret, lock >>
  /\ UNCHANGED << receiver, chan, thread, log, held, remaining, takes, delivered, outcome, since, calls >>
  /\ UNCHANGED << making, contended, evars, wvars >>

\* Lines 106-107: Server::http and listen_addr_port; each '?' returns the
\* error and drops the guard.
start_bind(p) ==
  /\ pc[p] = "s_bind"
  /\ \E b \in BindOutcomes :
       LET r == listen_addr_port(b, 0)
       IN IF b = "Err" \/ r.kind # "port"
          THEN /\ ret' = [ret EXCEPT ![p] = IF b = "Err" THEN Ret("start", BindFailure, << >>, 0) ELSE r]
               /\ pc' = [pc EXCEPT ![p] = "returned"]
               /\ lock' = Unlock(p)
          ELSE /\ Made < MaxStarts
               /\ pc' = [pc EXCEPT ![p] = "s_store"]
               /\ UNCHANGED << ret, lock >>
  /\ UNCHANGED << receiver, chan, thread, log, held, remaining, takes, delivered, outcome, since, calls >>
  /\ UNCHANGED << making, contended, evars, wvars >>

\* Lines 108-109: oneshot::channel(); *guard = Some(rx).
start_store(p) ==
  /\ pc[p] = "s_store"
  /\ LET k == Made + 1
     IN /\ k <= MaxStarts
        /\ chan' = [chan EXCEPT ![k] = [tx |-> "alive", rx |-> "alive", val |-> None]]
        /\ receiver' = k
        /\ making' = [making EXCEPT ![p] = k]
  /\ pc' = [pc EXCEPT ![p] = "s_spawn"]
  /\ UNCHANGED << thread, log, held, remaining, ret, takes, delivered, outcome, since, calls >>
  /\ UNCHANGED << lock, contended, evars, wvars >>

\* Lines 111-124: std::thread::spawn.
start_spawn(p) ==
  /\ pc[p] = "s_spawn"
  /\ thread' = [thread EXCEPT ![making[p]] = [pc |-> "accept", code |-> None]]
  /\ pc' = [pc EXCEPT ![p] = "s_ret"]
  /\ UNCHANGED << receiver, chan, log, held, remaining, ret, takes, delivered, outcome, since, calls >>
  /\ UNCHANGED << lockvars, evars, wvars >>

\* Line 126: Ok(port); the guard is dropped.
start_return(p) ==
  /\ pc[p] = "s_ret"
  /\ ret' = [ret EXCEPT ![p] = listen_addr_port("IP", making[p])]
  /\ making' = [making EXCEPT ![p] = 0]
  /\ lock' = Unlock(p)
  /\ pc' = [pc EXCEPT ![p] = "returned"]
  /\ UNCHANGED << receiver, chan, thread, log, held, remaining, takes, delivered, outcome, since, calls >>
  /\ UNCHANGED << contended, evars, wvars >>

\* The front end invokes await_oauth_code.
invoke_await(p, timeout_ms) ==
  /\ Free(p)
  /\ calls < MaxCalls
  /\ calls' = calls + 1
  /\ remaining' = [remaining EXCEPT ![p] = timeout_ms]
  /\ pc' = [pc EXCEPT ![p] = "a_lock"]
  /\ UNCHANGED << receiver, chan, thread, log, held, ret, takes, delivered, outcome, since >>
  /\ UNCHANGED << lockvars, evars, wvars >>

\* Line 135: state.receiver.lock(), inside the block of lines 134-137.
await_lock(p) ==
  /\ pc[p] = "a_lock"
  /\ lock = 0
  /\ lock' = p
  /\ pc' = [pc EXCEPT ![p] = "a_take"]
  /\ UNCHANGED << receiver, chan, thread, log, held, remaining, ret, takes, delivered, outcome, since, calls >>
  /\ UNCHANGED << making, contended, evars, wvars >>

\* await_take with the guard bound outside the block: it stays locked
\* while the await is suspended.
await_take_keeps_guard(p) ==
  /\ pc[p] = "a_take"
  /\ IF receiver = 0
     THEN /\ ret' = [ret EXCEPT ![p] = Ret("await", ListenerNotStarted, << >>, 0)]
          /\ pc' = [pc EXCEPT ![p] = "returned"]
          /\ remaining' = [remaining EXCEPT ![p] = 0]
          /\ lock' = Unlock(p)
          /\ UNCHANGED << receiver, held, takes >>
     ELSE /\ held' = [held EXCEPT ![p] = receiver]
          /\ receiver' = 0
          /\ takes' = [takes EXCEPT ![receiver] = @ + 1]
          /\ pc' = [pc EXCEPT ![p] = "awaiting"]
          /\ UNCHANGED << ret, remaining, lock >>
  /\ UNCHANGED << chan, thread, log, delivered, outcome, since, calls >>
  /\ UNCHANGED << making, contended, evars, wvars >>

\* Lines 136-137: guard.take(), or ListenerNotStarted; the block ends and
\* the guard is dropped before line 140.
await_take(p) ==
  /\ pc[p] = "a_take"
  /\ IF receiver = 0
     THEN /\ ret' = [ret EXCEPT ![p] = Ret("await", ListenerNotStarted, << >>, 0)]
          /\ pc' = [pc EXCEPT ![p] = "returned"]
          /\ remaining' = [remaining EXCEPT ![p] = 0]
          /\ UNCHANGED << receiver, held, takes >>
     ELSE /\ held' = [held EXCEPT ![p] = receiver]
          /\ receiver' = 0
          /\ takes' = [takes EXCEPT ![receiver] = @ + 1]
          /\ pc' = [pc EXCEPT ![p] = "awaiting"]
          /\ UNCHANGED << ret, remaining >>
  /\ lock' = Unlock(p)
  /\ UNCHANGED << chan, thread, log, delivered, outcome, since, calls >>
  /\ UNCHANGED << making, contended, evars, wvars >>

LockNext ==
  \/ \E p \in Callers : invoke_start(p)
  \/ \E p \in Callers : start_lock(p)
  \/ \E p \in Callers : start_check(p)
  \/ \E p \in Callers : start_bind(p)
  \/ \E p \in Callers : start_store(p)
  \/ \E p \in Callers : start_spawn(p)
  \/ \E p \in Callers : start_return(p)
  \/ \E p \in Callers : \E t \in 0..MaxTimeout : invoke_await(p, t)
  \/ \E p \in Callers : await_lock(p)
  \/ \E p \in Callers : await_take(p)
  \/ \E p \in Callers : timer(p)
  \/ \E p \in Callers : await_return(p)
  \/ \E p \in Callers : resolve(p)

LockSpec == LockInit /\ [][LockNext]_<< vars, lockvars >>

\* A thread that runs keeps running, and a free mutex is granted; nothing
\* makes the front end invoke or a suspended await return.
LockFair ==
  /\ LockSpec
  /\ \A p \in Callers :
       /\ WF_<< vars, lockvars >>(start_lock(p))
       /\ WF_<< vars, lockvars >>(start_check(p))
       /\ WF_<< vars, lockvars >>(start_bind(p))
       /\ WF_<< vars, lockvars >>(start_store(p))
       /\ WF_<< vars, lockvars >>(start_spawn(p))
       /\ WF_<< vars, lockvars >>(start_return(p))
       /\ WF_<< vars, lockvars >>(await_lock(p))
       /\ WF_<< vars, lockvars >>(await_take(p))

\* C14 as stated: start_oauth_listener does not hold the lock while the
\* loopback listener is being bound or while the thread is being spawned.
C14_Original ==
  \A p \in Callers : pc[p] \in { "s_bind", "s_spawn" } => lock # p

\* C14 as amended: start_oauth_listener holds the lock from line 101 until it
\* returns -- across the slot check, the bind, the store and the spawn -- and
\* not otherwise; await_oauth_code holds it only around its take.
C14_LockScope ==
  \A p \in Callers :
    lock = p <=> pc[p] \in StartPcs \cup { "a_take" }

\* A start holds the lock at its spawn while another command waits for it.
C14_Witness ==
  \E p, q \in Callers :
    /\ pc[p] = "s_spawn"
    /\ lock = p
    /\ receiver = making[p]
    /\ pc[q] \in { "s_lock", "a_lock" }

\* C15: a suspended await does not hold the lock, and whatever the suspended
\* awaits do, a start or await call that is at the lock acquires it and runs
\* on to its return (a start) or to its own suspension or return (an await).
C15_AwaitUnlocked ==
  /\ [](\A p \in Callers : pc[p] = "awaiting" => lock # p)
  /\ \A q \in Callers :
       (pc[q] \in { "s_lock", "a_lock" }) ~> (pc[q] \in { "returned", "awaiting" })

\* While an await waits on the first capture with time left, a start has
\* stored and returned the second one.
C15_Witness ==
  \E p, q \in Callers :
    /\ pc[p] = "awaiting"
    /\ remaining[p] > 0
    /\ held[p] = 1
    /\ pc[q] = "returned"
    /\ ret[q] = Ret("start", "port", << >>, 2)
    /\ lock = 0

\* C16: of two starts racing for an empty slot only one is past the lock at
\* a time; the one that finds the slot empty goes on to bind, the one that
\* finds it full fails with AlreadyRunning without binding, creating a
\* channel or spawning; a start stores only into an empty slot, so every
\* receiving end not yet taken is the one in the slot.
C16_StartRace ==
  [][/\ Cardinality({ p \in Callers : pc'[p] \in StartPcs }) <= 1
     /\ \A p \in Callers :
          (pc[p] = "s_check" /\ pc'[p] # "s_check") =>
            IF receiver # 0
            THEN /\ pc'[p] = "returned"
                 /\ ret'[p] = Ret("start", AlreadyRunning, << >>, 0)
                 /\ chan' = chan
                 /\ thread' = thread
                 /\ receiver' = receiver
            ELSE pc'[p] = "s_bind"
     /\ \A p \in Callers :
          (pc[p] = "s_store" /\ pc'[p] = "s_spawn") => receiver = 0 /\ receiver' = making'[p]
     /\ \A k \in Captures :
          (chan'[k].rx = "alive" /\ \A p \in Callers : held'[p] # k) => receiver' = k]_<< vars, lockvars >>

\* Two first calls, both starts, the second invoked while the first held the
\* lock: one returned the port, the other AlreadyRunning.
C16_Witness ==
  \E p, q \in Callers :
    /\ calls = 2
    /\ ret[p] = Ret("start", "port", << >>, 1)
    /\ ret[q] = Ret("start", AlreadyRunning, << >>, 0)
    /\ contended[q]
    /\ receiver = 1
    /\ Made = 1

\* ------------------------------------------------------- the GTK watcher
\* The loop of setup_gtk_watcher (theme.rs, lines 166-181), time in
\* milliseconds.  The watcher thread is modelled from the point where the
\* notify watcher is installed; tx lives in the watcher's callback for as
\* long as the thread does, so rx never reads a closed channel.
MaxEvents == 3     \* change events the notify watcher reports per run

Debounce == 200

WatchInit ==
  /\ ListenerInit
  /\ LockIdle
  /\ ExtractIdle
  /\ wpc = "recv"
  /\ queue = 0
  /\ left = 0
  /\ age = 0
  /\ batch = 0
  /\ events = 0
  /\ emitted = 0
  /\ notified = 0

\* Lines 147-151: the notify callback sends () for an Ok event only.
notify_callback(ok) ==
  /\ events < MaxEvents
  /\ IF ok
     THEN queue' = queue + 1 /\ events' = events + 1
     ELSE UNCHANGED << queue, events >>
  /\ UNCHANGED << wpc, left, age, batch, emitted, notified >>
  /\ UNCHANGED << vars, lockvars, evars >>

\* Lines 169-173: rx.recv() returns the first event; the deadline is set.
recv_first ==
  /\ wpc = "recv"
  /\ queue > 0
  /\ queue' = queue - 1
  /\ batch' = 1
  /\ left' = Debounce
  /\ age' = 0
  /\ wpc' = "drain"
  /\ UNCHANGED << events, emitted, notified >>
  /\ UNCHANGED << vars, lockvars, evars >>

\* recv_more as a trailing debounce: each further event restarts the window.
recv_more_extends ==
  /\ wpc = "drain"
  /\ left > 0
  /\ queue > 0
  /\ queue' = queue - 1
  /\ batch' = batch + 1
  /\ left' = Debounce
  /\ UNCHANGED << wpc, age, events, emitted, notified >>
  /\ UNCHANGED << vars, lockvars, evars >>

\* Lines 174-176: before the deadline, rx.recv_timeout(remaining) returns a
\* further event; the deadline stays.
recv_more ==
  /\ wpc = "drain"
  /\ left > 0
  /\ queue > 0
  /\ queue' = queue - 1
  /\ batch' = batch + 1
  /\ UNCHANGED << wpc, left, age, events, emitted, notified >>
  /\ UNCHANGED << vars, lockvars, evars >>

\* A millisecond of the window passes.
tick ==
  /\ wpc = "drain"
  /\ left > 0
  /\ left' = left - 1
  /\ age' = age + 1
  /\ UNCHANGED << wpc, queue, batch, events, emitted, notified >>
  /\ UNCHANGED << vars, lockvars, evars >>

\* Lines 174-178: the deadline is reached (recv_timeout times out, or the
\* while condition fails).
window_end ==
  /\ wpc = "drain"
  /\ left = 0
  /\ wpc' = "emit"
  /\ UNCHANGED << queue, left, age, batch, events, emitted, notified >>
  /\ UNCHANGED << vars, lockvars, evars >>

\* Line 180: handle.emit("gtk-theme-changed", ()).
emit_changed ==
  /\ wpc = "emit"
  /\ emitted' = emitted + 1
  /\ notified' = notified + batch
  /\ batch' = 0
  /\ wpc' = "recv"
  /\ UNCHANGED << queue, left, age, events >>
  /\ UNCHANGED << vars, lockvars, evars >>

WatchNext ==
  \/ \E ok \in BOOLEAN : notify_callback(ok)
  \/ recv_first
  \/ recv_more
  \/ tick
  \/ window_end
  \/ emit_changed

WatchSpec == WatchInit /\ [][WatchNext]_wvars

\* Time passes and the watcher thread runs.
WatchFair ==
  /\ WatchSpec
  /\ WF_wvars(recv_first)
  /\ WF_wvars(tick)
  /\ WF_wvars(window_end)
  /\ WF_wvars(emit_changed)

\* C20: every change event sent is queued, in the open batch, or covered by
\* one notification; a batch opens with a received event and takes further
\* events only within Debounce milliseconds of it, later events not moving
\* the deadline; a notification is emitted only once that window has passed,
\* covers the whole batch, which holds at least one event, and closes it;
\* every received event is eventually covered by a notification.
C20_Debounce ==
  /\ [](/\ events = queue + batch + notified
        /\ emitted <= notified
        /\ wpc = "recv" <=> batch = 0
        /\ wpc = "drain" => age + left = Debounce)
  /\ [][/\ batch' > batch => (wpc' = "drain" /\ age' < Debounce /\ (batch > 0 => left' = left))
        /\ emitted' # emitted =>
             /\ emitted' = emitted + 1
             /\ batch >= 1
             /\ age = Debounce
             /\ notified' = notified + batch
             /\ batch' = 0
        /\ notified' # notified => emitted' = emitted + 1]_wvars
  /\ \A n \in 1..MaxEvents : (events - queue >= n) ~> (notified >= n)

\* Two notifications were emitted for three events: one of them covered two.
C20_Witness ==
  /\ emitted = 2
  /\ notified = 3
  /\ wpc = "recv"
  /\ queue = 0

====
